---- MODULE Spec2Model ----
(***************************************************************************)
(* MAPS SiO archive search (maps_sio_archive_search.py).                   *)
(*                                                                         *)
(* The script is a sequential pipeline: query -> harmonize -> match ->     *)
(* build per-SPW / per-MOUS tables -> save -> optional download.           *)
(*                                                                         *)
(* Representation.                                                         *)
(*   - A text value is a TLA+ string; strings are compared character by    *)
(*     character (StrLess), as Python's sorted() compares str.             *)
(*   - A frequency is an integer number of kHz (43.423864 GHz = 43423864), *)
(*     so every frequency of the transition table is exact.  StrFloat      *)
(*     renders it as Python renders the float (trailing zeros dropped).    *)
(*   - NaN is the number NaN in a numeric column and the text NaNText in   *)
(*     a text column.                                                      *)
(*   - A DataFrame is [columns |-> set of column names,                    *)
(*                     rows    |-> sequence of functions column -> value]. *)
(***************************************************************************)
EXTENDS Integers, Sequences, FiniteSets, TLC

VARIABLES pc, DO_DOWNLOAD, archive_cols, src_idx, all_obs, qlog, obs,
          sio_spw, spw_table, mous_table, files, uids, dl_log, err

vars == <<pc, DO_DOWNLOAD, archive_cols, src_idx, all_obs, qlog, obs,
          sio_spw, spw_table, mous_table, files, uids, dl_log, err>>

(***************************************************************************)
(* Bounds of the model.                                                    *)
(***************************************************************************)
\* how many of the MAPS sources are queried
NumSources == 2
\* how many entries of the transition table are searched
NumTransitions == 3
\* rows of one archive response (pipeline)
MaxFrame == 1
\* rows of a table handed to a single stage
MaxRows == 2

(***************************************************************************)
(* Text: Python str comparison, str(float), ", ".join and their inverses.  *)
(***************************************************************************)
\* the characters the model uses, in code point order
Alphabet == " ',-.0123456789=ABCDEFGHIJKLMNOPQRSTUVWXYZ_abcdefghijklmnopqrstuvwxyz"

Ord(c) == CHOOSE i \in 1..Len(Alphabet) : SubSeq(Alphabet, i, i) = c

RECURSIVE StrLess(_, _)
StrLess(a, b) ==
    IF a = "" THEN b # ""
    ELSE IF b = "" THEN FALSE
    ELSE IF Head(a) = Head(b) THEN StrLess(Tail(a), Tail(b))
    ELSE Ord(Head(a)) < Ord(Head(b))

Digit(d) == SubSeq("0123456789", d + 1, d + 1)

RECURSIVE StrInt(_)
StrInt(n) == IF n < 10 THEN Digit(n) ELSE StrInt(n \div 10) \o Digit(n % 10)

\* the fractional part f (in 10^-w units, w digits wide), trailing zeros dropped
RECURSIVE StrFrac(_, _)
StrFrac(f, w) ==
    IF f = 0 THEN ""
    ELSE IF w = 1 THEN Digit(f)
    ELSE LET p == 10 ^ (w - 1)
         IN  Digit(f \div p) \o StrFrac(f % p, w - 1)

NaN == -1
NaNText == "nan"

\* str(x) of a float x given in kHz: GHz with up to 6 decimals
StrFloat(k) ==
    IF k = NaN THEN NaNText
    ELSE StrInt(k \div 1000000) \o "." \o
         (IF k % 1000000 = 0 THEN "0" ELSE StrFrac(k % 1000000, 6))

\* insertion of s into a sequence of strings sorted ascending
RECURSIVE InsertStr(_, _)
InsertStr(s, seq) ==
    IF seq = <<>> THEN <<s>>
    ELSE IF StrLess(s, Head(seq)) THEN <<s>> \o seq
    ELSE <<Head(seq)>> \o InsertStr(s, Tail(seq))

RECURSIVE SortedStrings(_)
SortedStrings(S) ==
    IF S = {} THEN <<>>
    ELSE LET s == CHOOSE x \in S : TRUE
         IN  InsertStr(s, SortedStrings(S \ {s}))

RECURSIVE Join(_)
Join(seq) ==
    IF seq = <<>> THEN ""
    ELSE IF Len(seq) = 1 THEN seq[1]
    ELSE seq[1] \o ", " \o Join(Tail(seq))

(***************************************************************************)
(* 1. User configuration.                                                  *)
(***************************************************************************)
MAPS_SOURCES == <<"IM Lup", "AS 209", "GM Aur", "HD 163296", "MWC 480">>

\* the sources the model queries
Sources == SubSeq(MAPS_SOURCES, 1, NumSources)

\* SiO(v=0) transitions, frequencies in kHz, in the order of the dict
AllTransitions == <<
    [label |-> "J=1-0",   freq |-> 43423864],
    [label |-> "J=2-1",   freq |-> 86846960],
    [label |-> "J=3-2",   freq |-> 130268610],
    [label |-> "J=4-3",   freq |-> 173688310],
    [label |-> "J=5-4",   freq |-> 217104980],
    [label |-> "J=6-5",   freq |-> 260518200],
    [label |-> "J=7-6",   freq |-> 303927030],
    [label |-> "J=8-7",   freq |-> 347331000],
    [label |-> "J=9-8",   freq |-> 390728730],
    [label |-> "J=10-9",  freq |-> 434120450],
    [label |-> "J=11-10", freq |-> 477506120],
    [label |-> "J=12-11", freq |-> 520885480],
    [label |-> "J=13-12", freq |-> 564258560],
    [label |-> "J=14-13", freq |-> 607625260],
    [label |-> "J=15-14", freq |-> 650985560],
    [label |-> "J=16-15", freq |-> 694339440],
    [label |-> "J=17-16", freq |-> 737686780],
    [label |-> "J=18-17", freq |-> 781027470],
    [label |-> "J=19-18", freq |-> 824361490],
    [label |-> "J=20-19", freq |-> 867688720] >>

\* the transitions the model searches
SIO_V0_TRANSITIONS_GHZ == SubSeq(AllTransitions, 1, NumTransitions)

(***************************************************************************)
(* DataFrames.                                                             *)
(***************************************************************************)
\* pd.DataFrame()
EmptyFrame == [columns |-> {}, rows |-> <<>>]

NumericCols == {"min_freq_GHz", "max_freq_GHz", "ang_res_arcsec",
                "best_ang_res", "SiO_freq_GHz"}

\* the value pandas fills a missing cell with
NaNOf(col) == IF col \in NumericCols THEN NaN ELSE NaNText

IsNull(v, col) == v = NaNOf(col)

\* df[col] = v, a scalar: every row gets v
AssignScalar(df, col, v) ==
    [columns |-> df.columns \cup {col},
     rows    |-> [i \in 1..Len(df.rows) |->
                    [c \in df.columns \cup {col} |->
                        IF c = col THEN v ELSE df.rows[i][c]]]]

\* df[col] = df[from]
AssignColumn(df, col, from) ==
    [columns |-> df.columns \cup {col},
     rows    |-> [i \in 1..Len(df.rows) |->
                    [c \in df.columns \cup {col} |->
                        IF c = col THEN df.rows[i][from] ELSE df.rows[i][c]]]]

RECURSIVE ConcatRows(_, _)
ConcatRows(frames, cols) ==
    IF frames = <<>> THEN <<>>
    ELSE [i \in 1..Len(frames[1].rows) |->
            [c \in cols |-> IF c \in frames[1].columns
                            THEN frames[1].rows[i][c] ELSE NaNOf(c)]]
         \o ConcatRows(Tail(frames), cols)

\* pd.concat(frames, ignore_index=True): union of the columns, NaN where absent
Concat(frames) ==
    LET cols == UNION {frames[i].columns : i \in 1..Len(frames)}
    IN  [columns |-> cols, rows |-> ConcatRows(frames, cols)]

(***************************************************************************)
(* The archive (external): what alminer.target may answer.                 *)
(***************************************************************************)
RawCols == {"project_code", "band_list", "band", "min_freq_GHz", "max_freq_GHz",
            "ang_res_arcsec", "best_ang_res", "member_ous_uid", "member_ous_id"}

\* spectral windows [min, max] in kHz, min < max:
\*   1: min is the J=1-0 frequency itself, brackets J=2-1
\*   2: max is the J=2-1 frequency itself, brackets J=1-0
\*   3: brackets J=2-1 and J=3-2
\*   4: brackets no transition
Windows == << [min |-> 43423864, max |-> 90000000],
              [min |-> 40000000, max |-> 86846960],
              [min |-> 80000000, max |-> 135000000],
              [min |-> 50000000, max |-> 60000000] >>

\* an archive row with every column of RawCols; the legacy columns carry
\* values of their own, so that the harmonizer's preference shows
RawRow(w, mous, project, bnd, ang) ==
    [project_code   |-> project,
     band_list      |-> bnd,
     band           |-> "B" \o bnd,
     min_freq_GHz   |-> Windows[w].min,
     max_freq_GHz   |-> Windows[w].max,
     ang_res_arcsec |-> ang,
     best_ang_res   |-> IF ang = NaN THEN NaN ELSE ang + 10,
     member_ous_uid |-> mous,
     member_ous_id  |-> IF mous = NaNText THEN NaNText ELSE mous \o "_id"]

Restrict(row, cols) == [c \in cols |-> row[c]]

\* the rows an archive answer is built from
ArchiveRows == { RawRow(3, "X1", "pA", "6", 2),
                 RawRow(2, "X2", "pB", "3", 1),
                 RawRow(4, "X1", "pA", "6", NaN) }

SeqsFromTo(S, lo, hi) == UNION { [1..k -> S] : k \in lo..hi }

\* a query raises, returns None, or returns a frame of 0..MaxFrame rows
Responses(cols) ==
    { [kind |-> "raise", df |-> EmptyFrame], [kind |-> "none", df |-> EmptyFrame] }
    \cup { [kind |-> "frame",
            df   |-> [columns |-> cols,
                      rows    |-> [i \in 1..Len(rs) |-> Restrict(rs[i], cols)]]]
           : rs \in SeqsFromTo(ArchiveRows, 0, MaxFrame) }

(***************************************************************************)
(* 2. query_maps_sources                                                   *)
(***************************************************************************)
NoError == ""
ErrNoObs == "RuntimeError: No observations returned for any MAPS source."

\* the loop body without its test for an empty result
QueryStepNoEmptyTest(all, src, resp) ==
    IF resp.kind = "raise" THEN all
    ELSE Append(all, AssignScalar(resp.df, "Source", src))

\* one iteration of the loop over the sources: the new all_obs

QueryStep(all, src, resp) ==
    IF resp.kind = "raise" THEN all
    ELSE IF resp.kind = "none" \/ Len(resp.df.rows) = 0 THEN all
    ELSE Append(all, AssignScalar(resp.df, "Source", src))

\* after the loop: the error raised, or the combined table
QueryResult(all) ==
    IF all = <<>> THEN [err |-> ErrNoObs, df |-> EmptyFrame]
    ELSE [err |-> NoError, df |-> Concat(all)]

(***************************************************************************)
(* 3. harmonize_columns                                                    *)
(***************************************************************************)
ErrMissing(col) == "KeyError: Missing required ObsCore column: " \o col
ErrNoMous ==
    "KeyError: ObsCore table missing MOUS identifier (member_ous_uid / member_ous_id)."

\* the angular resolution step
HarmonizeRes(df) ==
    IF "ang_res_arcsec" \notin df.columns
    THEN IF "best_ang_res" \in df.columns
         THEN AssignColumn(df, "ang_res_arcsec", "best_ang_res")
         ELSE AssignScalar(df, "ang_res_arcsec", NaN)
    ELSE df

\* the band step
HarmonizeBand(df) ==
    IF "band_list" \notin df.columns /\ "band" \in df.columns
    THEN AssignColumn(df, "band_list", "band")
    ELSE df

\* the frequency columns tested in the other order
harmonize_columns_max_first(df0) ==
    LET df == HarmonizeBand(HarmonizeRes(df0))
    IN  IF "max_freq_GHz" \notin df.columns
        THEN [err |-> ErrMissing("max_freq_GHz"), df |-> EmptyFrame]
        ELSE IF "min_freq_GHz" \notin df.columns
        THEN [err |-> ErrMissing("min_freq_GHz"), df |-> EmptyFrame]
        ELSE IF "member_ous_uid" \in df.columns
        THEN [err |-> NoError,
              df  |-> AssignColumn(df, "MOUS_ID", "member_ous_uid")]
        ELSE IF "member_ous_id" \in df.columns
        THEN [err |-> NoError,
              df  |-> AssignColumn(df, "MOUS_ID", "member_ous_id")]
        ELSE [err |-> ErrNoMous, df |-> EmptyFrame]

harmonize_columns(df0) ==
    LET df == HarmonizeBand(HarmonizeRes(df0))
    IN  IF "min_freq_GHz" \notin df.columns
        THEN [err |-> ErrMissing("min_freq_GHz"), df |-> EmptyFrame]
        ELSE IF "max_freq_GHz" \notin df.columns
        THEN [err |-> ErrMissing("max_freq_GHz"), df |-> EmptyFrame]
        ELSE IF "member_ous_uid" \in df.columns
        THEN [err |-> NoError,
              df  |-> AssignColumn(df, "MOUS_ID", "member_ous_uid")]
        ELSE IF "member_ous_id" \in df.columns
        THEN [err |-> NoError,
              df  |-> AssignColumn(df, "MOUS_ID", "member_ous_id")]
        ELSE [err |-> ErrNoMous, df |-> EmptyFrame]

(***************************************************************************)
(* 4. find_sio_spw_matches                                                 *)
(***************************************************************************)
\* a < b on floats: False when either side is NaN
FloatLess(a, b) == a # NaN /\ b # NaN /\ a < b

\* the window closed at both ends
CoversClosed(row, nu) ==
    /\ row["min_freq_GHz"] # NaN /\ row["max_freq_GHz"] # NaN
    /\ row["min_freq_GHz"] <= nu /\ nu <= row["max_freq_GHz"]

\* the mask of one transition: min_freq_GHz < nu and max_freq_GHz > nu
Covers(row, nu) ==
    FloatLess(row["min_freq_GHz"], nu) /\ FloatLess(nu, row["max_freq_GHz"])

\* sel of one transition, tagged (possibly no row)
Selection(obs_df, t) ==
    LET sel == [columns |-> obs_df.columns,
                rows    |-> SelectSeq(obs_df.rows, LAMBDA r : Covers(r, t.freq))]
    IN  AssignScalar(AssignScalar(sel, "SiO_transition", t.label),
                     "SiO_freq_GHz", t.freq)

\* the list `matches`, scanning the transitions from the k-th on
RECURSIVE MatchList(_, _)
MatchList(obs_df, k) ==
    IF k > Len(SIO_V0_TRANSITIONS_GHZ) THEN <<>>
    ELSE LET sel == Selection(obs_df, SIO_V0_TRANSITIONS_GHZ[k])
         IN  (IF Len(sel.rows) > 0 THEN <<sel>> ELSE <<>>)
             \o MatchList(obs_df, k + 1)

ErrKey(col) == "KeyError: '" \o col \o "'"

find_sio_spw_matches(obs_df) ==
    LET matches == MatchList(obs_df, 1)
    IN  IF matches = <<>> THEN [err |-> NoError, df |-> EmptyFrame]
        ELSE IF "Source" \notin obs_df.columns
        THEN [err |-> ErrKey("Source"), df |-> EmptyFrame]
        ELSE [err |-> NoError, df |-> Concat(matches)]

(***************************************************************************)
(* 5. build_per_spw_table, build_per_mous_table                            *)
(***************************************************************************)
\* sort_values: ascending on one key, NaN last
KeyLess(a, b, col) ==
    IF IsNull(a, col) THEN FALSE
    ELSE IF IsNull(b, col) THEN TRUE
    ELSE IF col \in NumericCols THEN a < b
    ELSE StrLess(a, b)

RECURSIVE RowLess(_, _, _)
RowLess(r1, r2, keys) ==
    IF keys = <<>> THEN FALSE
    ELSE IF KeyLess(r1[keys[1]], r2[keys[1]], keys[1]) THEN TRUE
    ELSE IF KeyLess(r2[keys[1]], r1[keys[1]], keys[1]) THEN FALSE
    ELSE RowLess(r1, r2, Tail(keys))

\* r goes after the rows that sort before it and before the others
RECURSIVE InsertRow(_, _, _)
InsertRow(r, sorted, keys) ==
    IF sorted = <<>> THEN <<r>>
    ELSE IF RowLess(Head(sorted), r, keys)
         THEN <<Head(sorted)>> \o InsertRow(r, Tail(sorted), keys)
         ELSE <<r>> \o sorted

\* the rows in ascending order of the keys; equal rows keep their order
RECURSIVE SortRows(_, _)
SortRows(rows, keys) ==
    IF rows = <<>> THEN <<>>
    ELSE InsertRow(Head(rows), SortRows(Tail(rows), keys), keys)

RECURSIVE FirstMissing(_, _)
FirstMissing(keys, cols) ==
    IF keys = <<>> THEN ""
    ELSE IF keys[1] \notin cols THEN keys[1]
    ELSE FirstMissing(Tail(keys), cols)

\* df.sort_values(keys): KeyError on the first key that is no column
sort_values(df, keys) ==
    IF FirstMissing(keys, df.columns) # ""
    THEN [err |-> ErrKey(FirstMissing(keys, df.columns)), df |-> EmptyFrame]
    ELSE [err |-> NoError,
          df  |-> [columns |-> df.columns, rows |-> SortRows(df.rows, keys)]]

\* df.rename(columns=...) with the renaming given as a function
NewName(c, renaming) == IF c \in DOMAIN renaming THEN renaming[c] ELSE c

OldName(c, cols, renaming) == CHOOSE o \in cols : NewName(o, renaming) = c

Rename(df, renaming) ==
    LET cols == { NewName(c, renaming) : c \in df.columns }
    IN  [columns |-> cols,
         rows    |-> [i \in 1..Len(df.rows) |->
                        [c \in cols |-> df.rows[i][OldName(c, df.columns, renaming)]]]]

\* df[cols]
Project(df, cols) ==
    [columns |-> cols,
     rows    |-> [i \in 1..Len(df.rows) |-> Restrict(df.rows[i], cols)]]

KeepCols == {"Source", "project_code", "band_list", "min_freq_GHz", "max_freq_GHz",
             "SiO_transition", "SiO_freq_GHz", "ang_res_arcsec", "MOUS_ID"}

SpwSortKeys == <<"Source", "Project", "ALMA_Band", "SiO_freq_GHz">>

build_per_spw_table(df) ==
    LET keep_cols == KeepCols \cap df.columns
        spw == Rename(Project(df, keep_cols),
                      [project_code |-> "Project", band_list |-> "ALMA_Band"])
    IN  sort_values(spw, SpwSortKeys)

\* str(v) of a cell
AsStr(v, col) == IF col \in NumericCols THEN StrFloat(v) ELSE v

ColValues(rows, col) == { rows[i][col] : i \in 1..Len(rows) }

RECURSIVE InsertNum(_, _)
InsertNum(x, seq) ==
    IF seq = <<>> THEN <<x>>
    ELSE IF x < Head(seq) THEN <<x>> \o seq
    ELSE <<Head(seq)>> \o InsertNum(x, Tail(seq))

RECURSIVE SortedNums(_)
SortedNums(S) ==
    IF S = {} THEN <<>>
    ELSE LET x == CHOOSE y \in S : TRUE
         IN  InsertNum(x, SortedNums(S \ {x}))

\* the values sorted before they are turned into strings
join_unique_sort_first(rows, col) ==
    IF col \in NumericCols
    THEN LET nums == SortedNums(ColValues(rows, col))
         IN  Join([i \in 1..Len(nums) |-> StrFloat(nums[i])])
    ELSE Join(SortedStrings(ColValues(rows, col)))

\* ", ".join(sorted(series.astype(str).unique()))
join_unique(rows, col) ==
    Join(SortedStrings({ AsStr(v, col) : v \in ColValues(rows, col) }))

SetMin(S) == CHOOSE x \in S : \A y \in S : x <= y
SetMax(S) == CHOOSE x \in S : \A y \in S : x >= y

\* "max" where "min" is meant
agg_min_as_max(rows, col) ==
    LET S == ColValues(rows, col) \ {NaN}
    IN  IF S = {} THEN NaN ELSE SetMax(S)

\* the "min" and "max" reductions: NaN is skipped, all-NaN gives NaN
agg_min(rows, col) ==
    LET S == ColValues(rows, col) \ {NaN}
    IN  IF S = {} THEN NaN ELSE SetMin(S)

agg_max(rows, col) ==
    LET S == ColValues(rows, col) \ {NaN}
    IN  IF S = {} THEN NaN ELSE SetMax(S)

AggCols == {"Source", "project_code", "band_list", "min_freq_GHz", "max_freq_GHz",
            "SiO_transition", "SiO_freq_GHz", "ang_res_arcsec"}

ErrAgg(missing) ==
    "KeyError: Column(s) ["
    \o Join(SortedStrings({ "'" \o c \o "'" : c \in missing }))
    \o "] do not exist"

\* one key per row instead of one per group
GroupKeysPerRow(df) ==
    LET rows == SelectSeq(df.rows, LAMBDA r : ~IsNull(r["MOUS_ID"], "MOUS_ID"))
        ids == [i \in 1..Len(rows) |-> [MOUS_ID |-> rows[i]["MOUS_ID"]]]
        sorted == SortRows(ids, <<"MOUS_ID">>)
    IN  [i \in 1..Len(sorted) |-> sorted[i]["MOUS_ID"]]

\* groupby("MOUS_ID"): the group keys ascending, rows with a null key dropped
GroupKeys(df) ==
    SortedStrings({ k \in ColValues(df.rows, "MOUS_ID") : ~IsNull(k, "MOUS_ID") })

GroupRows(df, key) == SelectSeq(df.rows, LAMBDA r : r["MOUS_ID"] = key)

\* the aggregated row of one group, after reset_index
AggRow(df, key) ==
    LET g == GroupRows(df, key)
    IN  [MOUS_ID        |-> key,
         Source         |-> join_unique(g, "Source"),
         project_code   |-> join_unique(g, "project_code"),
         band_list      |-> join_unique(g, "band_list"),
         min_freq_GHz   |-> agg_min(g, "min_freq_GHz"),
         max_freq_GHz   |-> agg_max(g, "max_freq_GHz"),
         SiO_transition |-> join_unique(g, "SiO_transition"),
         SiO_freq_GHz   |-> join_unique(g, "SiO_freq_GHz"),
         ang_res_arcsec |-> agg_min(g, "ang_res_arcsec")]

MousSortKeys == <<"Source", "Project">>

build_per_mous_table(df) ==
    IF "MOUS_ID" \notin df.columns
    THEN [err |-> ErrKey("MOUS_ID"), df |-> EmptyFrame]
    ELSE IF AggCols \ df.columns # {}
    THEN [err |-> ErrAgg(AggCols \ df.columns), df |-> EmptyFrame]
    ELSE LET keys == GroupKeys(df)
             grouped == [columns |-> AggCols \cup {"MOUS_ID"},
                         rows    |-> [i \in 1..Len(keys) |-> AggRow(df, keys[i])]]
             renamed == Rename(grouped,
                               [project_code   |-> "Project",
                                band_list      |-> "ALMA_Band",
                                SiO_transition |-> "SiO_transitions",
                                SiO_freq_GHz   |-> "SiO_freqs_GHz"])
         IN  sort_values(renamed, MousSortKeys)

(***************************************************************************)
(* 6. save_tables                                                          *)
(***************************************************************************)
SaveOrder == <<"sio_spw_matches.csv", "sio_mous_summary.csv",
               "sio_spw_matches.tex", "sio_mous_summary.tex">>

SpwTexCols == {"Source", "Project", "ALMA_Band", "min_freq_GHz", "max_freq_GHz",
               "SiO_transition", "SiO_freq_GHz", "ang_res_arcsec"}

MousTexCols == {"MOUS_ID", "Source", "Project", "ALMA_Band", "SiO_transitions",
                "SiO_freqs_GHz", "min_freq_GHz", "max_freq_GHz", "ang_res_arcsec"}

ErrIO == "OSError: write failed"
ErrLatex == "KeyError: columns not in the table"

\* what the k-th write of save_tables puts into its file, or the error of
\* to_latex(columns=...) when a listed column is absent (the file is then
\* already opened, and left empty)
FileContent(k, spw, mous) ==
    IF k = 1 THEN [err |-> NoError, df |-> spw]
    ELSE IF k = 2 THEN [err |-> NoError, df |-> mous]
    ELSE IF k = 3
    THEN IF SpwTexCols \subseteq spw.columns
         THEN [err |-> NoError, df |-> Project(spw, SpwTexCols)]
         ELSE [err |-> ErrLatex, df |-> EmptyFrame]
    ELSE IF MousTexCols \subseteq mous.columns
         THEN [err |-> NoError, df |-> Project(mous, MousTexCols)]
         ELSE [err |-> ErrLatex, df |-> EmptyFrame]

WriteFile(fs, name, content) ==
    [n \in DOMAIN fs \cup {name} |-> IF n = name THEN content ELSE fs[n]]

(***************************************************************************)
(* 7. download_mous_products                                               *)
(***************************************************************************)
\* mous_table["MOUS_ID"].unique(): the values in order of first appearance
RECURSIVE Unique(_, _)
Unique(rows, col) ==
    IF rows = <<>> THEN <<>>
    ELSE LET init == Unique(SubSeq(rows, 1, Len(rows) - 1), col)
             v == rows[Len(rows)][col]
         IN  IF \E i \in 1..Len(init) : init[i] = v THEN init ELSE Append(init, v)

ErrRetrieve == "Exception: retrieve_data_from_uid failed"

\* a retrieval outside any try/except
RetrieveErrorUncaught(ok) == IF ok THEN NoError ELSE ErrRetrieve

\* the error that leaves the try/except around one retrieval: none, whether
\* retrieve_data_from_uid returned (ok) or raised
RetrieveError(ok) == NoError

(***************************************************************************)
(* 8. main, step by step                                                   *)
(***************************************************************************)
\* sio_spw.empty
IsEmpty(df) == df.columns = {} \/ df.rows = <<>>

\* main without its early return
AfterMatchNoReturn(sio) == "build_spw"

\* where main goes after the matcher

AfterMatch(sio) == IF IsEmpty(sio) THEN "done" ELSE "build_spw"

\* where main goes after save_tables
AfterSave(flag, ids) == IF flag /\ ids # <<>> THEN "download" ELSE "done"

\* the state main starts in, but for pc and the configuration
Fresh ==
    /\ src_idx = 1
    /\ all_obs = <<>>
    /\ qlog = <<>>
    /\ obs = EmptyFrame
    /\ sio_spw = EmptyFrame
    /\ spw_table = EmptyFrame
    /\ mous_table = EmptyFrame
    /\ files = <<>>
    /\ uids = <<>>
    /\ dl_log = <<>>
    /\ err = NoError

\* the column sets the archive may answer with (pipeline)
Canonical == RawCols \ {"band", "best_ang_res", "member_ous_id"}
Legacy    == RawCols \ {"band_list", "ang_res_arcsec", "member_ous_uid"}
Schemas == { Canonical, Legacy, Canonical \ {"band_list"},
             Canonical \ {"max_freq_GHz"} }

Init ==
    /\ pc = "query"
    /\ DO_DOWNLOAD \in BOOLEAN
    /\ archive_cols \in Schemas
    /\ Fresh

Fail(e) ==
    /\ pc' = "error"
    /\ err' = e

\* one iteration of the loop of query_maps_sources
QueryTarget ==
    /\ pc = "query"
    /\ src_idx <= Len(Sources)
    /\ \E resp \in Responses(archive_cols) :
          /\ all_obs' = QueryStep(all_obs, Sources[src_idx], resp)
          /\ qlog' = Append(qlog, [src |-> Sources[src_idx], resp |-> resp])
    /\ src_idx' = src_idx + 1
    /\ UNCHANGED <<pc, DO_DOWNLOAD, archive_cols, obs, sio_spw, spw_table,
                   mous_table, files, uids, dl_log, err>>

\* the end of query_maps_sources: raise, or return the combined table
QueryEnd ==
    /\ pc = "query"
    /\ src_idx > Len(Sources)
    /\ LET res == QueryResult(all_obs)
       IN  IF res.err # NoError
           THEN Fail(res.err) /\ UNCHANGED obs
           ELSE pc' = "harmonize" /\ obs' = res.df /\ UNCHANGED err
    /\ UNCHANGED <<DO_DOWNLOAD, archive_cols, src_idx, all_obs, qlog, sio_spw,
                   spw_table, mous_table, files, uids, dl_log>>

\* obs = harmonize_columns(obs)
Harmonize ==
    /\ pc = "harmonize"
    /\ LET res == harmonize_columns(obs)
       IN  IF res.err # NoError
           THEN Fail(res.err) /\ UNCHANGED obs
           ELSE pc' = "match" /\ obs' = res.df /\ UNCHANGED err
    /\ UNCHANGED <<DO_DOWNLOAD, archive_cols, src_idx, all_obs, qlog, sio_spw,
                   spw_table, mous_table, files, uids, dl_log>>

\* sio_spw = find_sio_spw_matches(obs), and the early return of main
Match ==
    /\ pc = "match"
    /\ LET res == find_sio_spw_matches(obs)
       IN  IF res.err # NoError
           THEN Fail(res.err) /\ UNCHANGED sio_spw
           ELSE pc' = AfterMatch(res.df) /\ sio_spw' = res.df /\ UNCHANGED err
    /\ UNCHANGED <<DO_DOWNLOAD, archive_cols, src_idx, all_obs, qlog, obs,
                   spw_table, mous_table, files, uids, dl_log>>

\* spw_table = build_per_spw_table(sio_spw)
BuildSpw ==
    /\ pc = "build_spw"
    /\ LET res == build_per_spw_table(sio_spw)
       IN  IF res.err # NoError
           THEN Fail(res.err) /\ UNCHANGED spw_table
           ELSE pc' = "build_mous" /\ spw_table' = res.df /\ UNCHANGED err
    /\ UNCHANGED <<DO_DOWNLOAD, archive_cols, src_idx, all_obs, qlog, obs,
                   sio_spw, mous_table, files, uids, dl_log>>

\* mous_table = build_per_mous_table(sio_spw)
BuildMous ==
    /\ pc = "build_mous"
    /\ LET res == build_per_mous_table(sio_spw)
       IN  IF res.err # NoError
           THEN Fail(res.err) /\ UNCHANGED mous_table
           ELSE pc' = "save" /\ mous_table' = res.df /\ UNCHANGED err
    /\ UNCHANGED <<DO_DOWNLOAD, archive_cols, src_idx, all_obs, qlog, obs,
                   sio_spw, spw_table, files, uids, dl_log>>

\* one write of save_tables; the write may fail.  After the last write main
\* tests DO_DOWNLOAD, and download_mous_products lists the identifiers.
SaveFile ==
    /\ pc = "save"
    /\ LET k == Cardinality(DOMAIN files) + 1
           content == FileContent(k, spw_table, mous_table)
       IN  \E written \in BOOLEAN :
              IF ~written
              THEN Fail(ErrIO) /\ UNCHANGED <<files, uids>>
              ELSE IF content.err # NoError
              THEN /\ Fail(content.err)
                   /\ files' = WriteFile(files, SaveOrder[k], EmptyFrame)
                   /\ UNCHANGED uids
              ELSE /\ files' = WriteFile(files, SaveOrder[k], content.df)
                   /\ UNCHANGED err
                   /\ IF k < Len(SaveOrder)
                      THEN UNCHANGED <<pc, uids>>
                      ELSE LET ids == Unique(mous_table.rows, "MOUS_ID")
                           IN  /\ pc' = AfterSave(DO_DOWNLOAD, ids)
                               /\ uids' = IF DO_DOWNLOAD THEN ids ELSE uids
    /\ UNCHANGED <<DO_DOWNLOAD, archive_cols, src_idx, all_obs, qlog, obs,
                   sio_spw, spw_table, mous_table, dl_log>>

\* one iteration of the loop of download_mous_products
Retrieve ==
    /\ pc = "download"
    /\ Len(dl_log) < Len(uids)
    /\ \E ok \in BOOLEAN :
          LET e == RetrieveError(ok)
          IN  /\ dl_log' = Append(dl_log, [uid |-> uids[Len(dl_log) + 1], ok |-> ok])
              /\ IF e # NoError
                 THEN Fail(e)
                 ELSE /\ pc' = IF Len(dl_log) + 1 = Len(uids) THEN "done" ELSE pc
                      /\ UNCHANGED err
    /\ UNCHANGED <<DO_DOWNLOAD, archive_cols, src_idx, all_obs, qlog, obs,
                   sio_spw, spw_table, mous_table, files, uids>>

Next ==
    \/ QueryTarget
    \/ QueryEnd
    \/ Harmonize
    \/ Match
    \/ BuildSpw
    \/ BuildMous
    \/ SaveFile
    \/ Retrieve

\* main(), from its first line
Spec == Init /\ [][Next]_vars

(***************************************************************************)
(* harmonize_columns alone, on a combined table of any column set.         *)
(***************************************************************************)
InitHarm ==
    /\ pc = "harmonize"
    /\ DO_DOWNLOAD = FALSE
    /\ archive_cols \in SUBSET RawCols
    /\ src_idx = Len(Sources) + 1
    /\ all_obs = <<>>
    /\ qlog = <<>>
    /\ \E rs \in SeqsFromTo(ArchiveRows, 1, MaxFrame) :
          obs = AssignScalar(
                  [columns |-> archive_cols,
                   rows    |-> [i \in 1..Len(rs) |-> Restrict(rs[i], archive_cols)]],
                  "Source", Sources[1])
    /\ sio_spw = EmptyFrame
    /\ spw_table = EmptyFrame
    /\ mous_table = EmptyFrame
    /\ files = <<>>
    /\ uids = <<>>
    /\ dl_log = <<>>
    /\ err = NoError

NextHarm == Harmonize

SpecHarm == InitHarm /\ [][NextHarm]_vars

NoMousCol(c) == "member_ous_uid" \notin c /\ "member_ous_id" \notin c

\* C4: harmonize_columns raises iff min_freq_GHz is absent, or max_freq_GHz is
\* absent, or both member_ous_uid and member_ous_id are absent; a frequency
\* error names a column that is missing, and names min_freq_GHz when both are
\* missing; an absent resolution or band column never raises.
C4_SchemaError ==
    pc # "harmonize" =>
        LET c == archive_cols
            freqMissing == {"min_freq_GHz", "max_freq_GHz"} \ c
        IN  /\ (pc = "error") <=> (freqMissing # {} \/ NoMousCol(c))
            /\ (pc = "error") <=> (err # NoError)
            /\ freqMissing # {} => \E col \in freqMissing : err = ErrMissing(col)
            /\ freqMissing = {"min_freq_GHz", "max_freq_GHz"}
                  => err = ErrMissing("min_freq_GHz")
            /\ (freqMissing = {} /\ NoMousCol(c)) => err = ErrNoMous
            /\ (freqMissing = {} /\ ~NoMousCol(c)
                /\ {"ang_res_arcsec", "best_ang_res", "band_list", "band"} \cap c = {})
                  => pc = "match"

\* both frequency columns absent, and the error names min_freq_GHz
C4_Witness ==
    /\ pc = "error"
    /\ {"min_freq_GHz", "max_freq_GHz"} \cap archive_cols = {}
    /\ err = ErrMissing("min_freq_GHz")

(***************************************************************************)
(* The matcher and the two table builders alone, on a harmonized table.    *)
(***************************************************************************)
\* a harmonized row: window w, dataset group mous, and one of two profiles
\* (source, project, band, resolution)
TableRow(w, mous, p) ==
    [Source         |-> MAPS_SOURCES[p],
     project_code   |-> <<"pA", "pB">>[p],
     band_list      |-> <<"6", "3">>[p],
     min_freq_GHz   |-> Windows[w].min,
     max_freq_GHz   |-> Windows[w].max,
     ang_res_arcsec |-> IF p = 1 THEN w ELSE NaN,
     MOUS_ID        |-> mous]

TableRows ==
    { TableRow(w, mous, p) :
        w \in 1..Len(Windows), mous \in {"X1", "X2", NaNText}, p \in 1..2 }

\* the columns harmonize_columns guarantees, and those it does not
GuaranteedCols == {"Source", "min_freq_GHz", "max_freq_GHz", "ang_res_arcsec",
                   "MOUS_ID"}
OptionalCols == {"project_code", "band_list"}

InitTables ==
    /\ pc = "match"
    /\ DO_DOWNLOAD = FALSE
    /\ archive_cols = {}
    /\ src_idx = Len(Sources) + 1
    /\ all_obs = <<>>
    /\ qlog = <<>>
    /\ \E opt \in SUBSET OptionalCols :
       \E rs \in SeqsFromTo(TableRows, 1, MaxRows) :
          obs = [columns |-> GuaranteedCols \cup opt,
                 rows    |-> [i \in 1..Len(rs) |->
                                Restrict(rs[i], GuaranteedCols \cup opt)]]
    /\ sio_spw = EmptyFrame
    /\ spw_table = EmptyFrame
    /\ mous_table = EmptyFrame
    /\ files = <<>>
    /\ uids = <<>>
    /\ dl_log = <<>>
    /\ err = NoError

NextTables ==
    \/ Match
    \/ BuildSpw
    \/ BuildMous

SpecTables == InitTables /\ [][NextTables]_vars

(***************************************************************************)
(* Reading a summary field back: split(", ") and float().                  *)
(***************************************************************************)
RECURSIVE SplitAcc(_, _)
SplitAcc(s, cur) ==
    IF s = "" THEN <<cur>>
    ELSE IF Len(s) >= 2 /\ SubSeq(s, 1, 2) = ", "
    THEN <<cur>> \o SplitAcc(SubSeq(s, 3, Len(s)), "")
    ELSE SplitAcc(Tail(s), cur \o Head(s))

Split(s) == SplitAcc(s, "")

DigitVal(c) == CHOOSE d \in 0..9 : Digit(d) = c

RECURSIVE ParseDigits(_, _)
ParseDigits(s, acc) ==
    IF s = "" THEN acc ELSE ParseDigits(Tail(s), acc * 10 + DigitVal(Head(s)))

RECURSIVE BeforeDot(_)
BeforeDot(s) ==
    IF s = "" \/ Head(s) = "." THEN "" ELSE Head(s) \o BeforeDot(Tail(s))

RECURSIVE AfterDot(_)
AfterDot(s) ==
    IF s = "" THEN "" ELSE IF Head(s) = "." THEN Tail(s) ELSE AfterDot(Tail(s))

RECURSIVE PadRight(_, _)
PadRight(s, w) == IF Len(s) >= w THEN s ELSE PadRight(s \o "0", w)

\* float(s) in kHz
ParseFloat(s) ==
    IF s = NaNText THEN NaN
    ELSE ParseDigits(BeforeDot(s), 0) * 1000000
         + ParseDigits(PadRight(AfterDot(s), 6), 0)

SeqToSet(seq) == { seq[i] : i \in 1..Len(seq) }

StrictlyAscending(seq) ==
    \A i \in 1..Len(seq) : \A j \in 1..Len(seq) : i < j => StrLess(seq[i], seq[j])

Count(seq, x) == Cardinality({ i \in 1..Len(seq) : seq[i] = x })

(***************************************************************************)
(* Claims about the matcher and the table builders (SpecTables).           *)
(***************************************************************************)
\* the matcher has run on obs (query and harmonizer succeeded before it)
MatcherRan ==
    /\ pc \notin {"query", "harmonize", "match"}
    /\ err \notin {ErrNoObs, ErrMissing("min_freq_GHz"), ErrMissing("max_freq_GHz"),
                   ErrNoMous, ErrKey("Source")}

\* t's frequency lies strictly inside r's window
Inside(r, t) == r["min_freq_GHz"] < t.freq /\ t.freq < r["max_freq_GHz"]

\* the MatchRecord of record r and transition t
MatchRecord(r, t) ==
    [c \in DOMAIN r \cup {"SiO_transition", "SiO_freq_GHz"} |->
        IF c = "SiO_transition" THEN t.label
        ELSE IF c = "SiO_freq_GHz" THEN t.freq
        ELSE r[c]]

\* C1: the matcher returns one MatchRecord for the pair (r, t) exactly when
\* r.min_freq_GHz < t.freq < r.max_freq_GHz, strict on both ends, and none
\* otherwise; the MatchRecords of one record differ only in label and frequency.
\* (Equal records of the table have equal MatchRecords, hence the counts.)
C1_StrictMatch ==
    MatcherRan =>
        LET T == SIO_V0_TRANSITIONS_GHZ
            R == obs.rows
        IN  /\ \A i \in 1..Len(R) : \A k \in 1..Len(T) :
                  Count(sio_spw.rows, MatchRecord(R[i], T[k]))
                    = IF Inside(R[i], T[k]) THEN Count(R, R[i]) ELSE 0
            /\ Len(sio_spw.rows)
                 = Cardinality({ p \in (1..Len(R)) \X (1..Len(T)) :
                                   Inside(R[p[1]], T[p[2]]) })

\* a window that starts exactly at a transition (no match for it), and a
\* window over two transitions (two MatchRecords)
C1_Witness ==
    /\ MatcherRan
    /\ \E i \in 1..Len(obs.rows) : \E k \in 1..Len(SIO_V0_TRANSITIONS_GHZ) :
          /\ obs.rows[i]["min_freq_GHz"] = SIO_V0_TRANSITIONS_GHZ[k].freq
          /\ Count(sio_spw.rows, MatchRecord(obs.rows[i], SIO_V0_TRANSITIONS_GHZ[k])) = 0
    /\ \E i \in 1..Len(obs.rows) :
          Cardinality({ k \in 1..Len(SIO_V0_TRANSITIONS_GHZ) :
                          Count(sio_spw.rows,
                                MatchRecord(obs.rows[i], SIO_V0_TRANSITIONS_GHZ[k])) = 1 }) = 2

\* the dataset-group identifiers among the MatchRecords
InputIds ==
    { sio_spw.rows[i]["MOUS_ID"] : i \in 1..Len(sio_spw.rows) } \ {NaNText}

\* build_per_mous_table has returned its table
MousBuilt == pc \in {"save", "download"} \/ (pc = "done" /\ ~IsEmpty(sio_spw))

\* C5: the per-MOUS table has exactly one row for every identifier among the
\* MatchRecords and no row for any other identifier.  (An identifier is a
\* MOUS_ID that is not null: groupby leaves out the MatchRecords whose MOUS_ID
\* is null, which name no dataset group.)
C5_OneRowPerMous ==
    MousBuilt =>
        /\ \A id \in InputIds :
              Cardinality({ j \in 1..Len(mous_table.rows) :
                              mous_table.rows[j]["MOUS_ID"] = id }) = 1
        /\ \A j \in 1..Len(mous_table.rows) : mous_table.rows[j]["MOUS_ID"] \in InputIds

\* two groups, one of them of several MatchRecords
C5_Witness ==
    /\ MousBuilt
    /\ Cardinality(InputIds) = 2
    /\ Len(mous_table.rows) = 2
    /\ Len(sio_spw.rows) > 2

\* the MatchRecords of one group
GroupOf(id) == SelectSeq(sio_spw.rows, LAMBDA r : r["MOUS_ID"] = id)

\* field is the strings of vals, sorted ascending as strings, each once,
\* joined by ", "
IsJoinOf(field, vals) ==
    /\ StrictlyAscending(Split(field))
    /\ SeqToSet(Split(field)) = vals

\* x is the least (greatest) number of S, NaN left out; NaN when nothing is left
IsMinOf(x, S) ==
    IF S \ {NaN} = {} THEN x = NaN
    ELSE x \in S \ {NaN} /\ \A y \in S \ {NaN} : x <= y

IsMaxOf(x, S) ==
    IF S \ {NaN} = {} THEN x = NaN
    ELSE x \in S \ {NaN} /\ \A y \in S \ {NaN} : x >= y

\* C6: each summary row holds the source, project, band, transition label and
\* transition frequency fields as the sorted, deduplicated, comma-joined string
\* representations of the group's values, the minimum of the minimum
\* frequencies, the maximum of the maximum frequencies and the minimum angular
\* resolution.
C6_SummaryRow ==
    MousBuilt =>
        \A j \in 1..Len(mous_table.rows) :
            LET row == mous_table.rows[j]
                g == GroupOf(row["MOUS_ID"])
                Vals(col) == { g[i][col] : i \in 1..Len(g) }
            IN  /\ IsJoinOf(row["Source"], Vals("Source"))
                /\ IsJoinOf(row["Project"], Vals("project_code"))
                /\ IsJoinOf(row["ALMA_Band"], Vals("band_list"))
                /\ IsJoinOf(row["SiO_transitions"], Vals("SiO_transition"))
                /\ IsJoinOf(row["SiO_freqs_GHz"],
                            { StrFloat(f) : f \in Vals("SiO_freq_GHz") })
                /\ IsMinOf(row["min_freq_GHz"], Vals("min_freq_GHz"))
                /\ IsMaxOf(row["max_freq_GHz"], Vals("max_freq_GHz"))
                /\ IsMinOf(row["ang_res_arcsec"], Vals("ang_res_arcsec"))

\* a group of two sources and two windows whose frequencies sort differently
\* as strings ("130.26861" before "86.84696") than as numbers
C6_Witness ==
    /\ MousBuilt
    /\ \E j \in 1..Len(mous_table.rows) :
          /\ Len(Split(mous_table.rows[j]["Source"])) = 2
          /\ mous_table.rows[j]["SiO_freqs_GHz"] = "130.26861, 43.423864, 86.84696"
          /\ mous_table.rows[j]["min_freq_GHz"] = 40000000
          /\ mous_table.rows[j]["max_freq_GHz"] = 135000000

\* C10: in every summary row each listed transition frequency lies strictly
\* between the row's min_freq_GHz and max_freq_GHz, and each listed label is
\* a key of the transition table whose frequency is among the listed ones.
C10_ListedInsideWindow ==
    MousBuilt =>
        \A j \in 1..Len(mous_table.rows) :
            LET row == mous_table.rows[j]
                freqs == { ParseFloat(f) : f \in SeqToSet(Split(row["SiO_freqs_GHz"])) }
                labels == SeqToSet(Split(row["SiO_transitions"]))
            IN  /\ \A f \in freqs :
                      row["min_freq_GHz"] < f /\ f < row["max_freq_GHz"]
                /\ \A l \in labels :
                      \E k \in 1..Len(SIO_V0_TRANSITIONS_GHZ) :
                          /\ SIO_V0_TRANSITIONS_GHZ[k].label = l
                          /\ SIO_V0_TRANSITIONS_GHZ[k].freq \in freqs

\* a summary row of two windows, neither of which covers every listed frequency
C10_Witness ==
    /\ MousBuilt
    /\ \E j \in 1..Len(mous_table.rows) :
          /\ Len(Split(mous_table.rows[j]["SiO_freqs_GHz"])) = 3
          /\ Len(GroupOf(mous_table.rows[j]["MOUS_ID"])) = 3

\* build_per_spw_table has been called
SpwCalled ==
    MatcherRan /\ pc # "build_spw" /\ ~(pc = "done" /\ IsEmpty(sio_spw))

\* C7 (as claimed): build_per_spw_table keeps the columns of the fixed set
\* that are present, omits an absent one without raising, and returns the rows
\* sorted ascending by (source, project, band, transition frequency).
C7_AbsentColumnOmitted ==
    SpwCalled =>
        /\ err \notin { ErrKey(SpwSortKeys[k]) : k \in 1..Len(SpwSortKeys) }
        /\ Len(spw_table.rows) = Len(sio_spw.rows)
        /\ Cardinality(spw_table.columns)
             = Cardinality(KeepCols \cap sio_spw.columns)
        /\ \A i \in 1..Len(spw_table.rows) : \A j \in 1..Len(spw_table.rows) :
              i < j => ~RowLess(spw_table.rows[j], spw_table.rows[i], SpwSortKeys)

(***************************************************************************)
(* Claims about the pipeline (Spec).                                       *)
(***************************************************************************)
\* the query of log entry e produced rows
Produced(e) == e.resp.kind = "frame" /\ Len(e.resp.df.rows) > 0

\* the rows of the targets that produced rows, each with its target's name
RECURSIVE TaggedRows(_)
TaggedRows(log) ==
    IF log = <<>> THEN <<>>
    ELSE (IF Produced(Head(log))
          THEN [i \in 1..Len(Head(log).resp.df.rows) |->
                  [c \in DOMAIN Head(log).resp.df.rows[i] \cup {"Source"} |->
                      IF c = "Source" THEN Head(log).src
                      ELSE Head(log).resp.df.rows[i][c]]]
          ELSE <<>>)
         \o TaggedRows(Tail(log))

\* C2: a target whose query raises or returns nothing is skipped and every
\* later target is still queried; the stage raises the exhaustion error iff no
\* target produced rows, and otherwise returns exactly the rows of the targets
\* that produced rows, each tagged with the name of its target.
C2_QuerySkipsFailures ==
    /\ pc = "query" => Len(qlog) = src_idx - 1
    /\ pc # "query" =>
          /\ Len(qlog) = Len(Sources)
          /\ \A i \in 1..Len(qlog) : qlog[i].src = Sources[i]
          /\ (err = ErrNoObs) <=> (\A i \in 1..Len(qlog) : ~Produced(qlog[i]))
    /\ pc = "harmonize" => obs.rows = TaggedRows(qlog)

\* the first query raised, the second produced the rows returned
C2_Witness ==
    /\ pc = "harmonize"
    /\ qlog[1].resp.kind = "raise"
    /\ Produced(qlog[2])
    /\ obs.rows[1]["Source"] = Sources[2]

\* no record's window brackets any configured transition frequency
NoBracket ==
    \A i \in 1..Len(obs.rows) : \A k \in 1..Len(SIO_V0_TRANSITIONS_GHZ) :
        ~Inside(obs.rows[i], SIO_V0_TRANSITIONS_GHZ[k])

\* C3: when no record of the harmonized table brackets any transition, main
\* ends normally, writes none of the four files and starts no download.
C3_EmptyMatchStops ==
    (MatcherRan /\ NoBracket) =>
        /\ pc = "done"
        /\ err = NoError
        /\ DOMAIN files = {}
        /\ uids = <<>>
        /\ dl_log = <<>>

\* main has returned after an empty match, the download stage being enabled
C3_Witness ==
    /\ MatcherRan
    /\ NoBracket
    /\ obs.rows # <<>>
    /\ pc = "done"
    /\ DO_DOWNLOAD

AllWritten == DOMAIN files = SeqToSet(SaveOrder)

Attempts(id) == Cardinality({ i \in 1..Len(dl_log) : dl_log[i].uid = id })

SummaryIds == { mous_table.rows[j]["MOUS_ID"] : j \in 1..Len(mous_table.rows) }

C8_Attempts ==
    /\ dl_log # <<>> => (DO_DOWNLOAD /\ AllWritten)
    /\ err # ErrRetrieve
    /\ pc = "error" => dl_log = <<>>
    /\ \A i \in 1..Len(dl_log) : dl_log[i].uid \in SummaryIds /\ Attempts(dl_log[i].uid) = 1
    /\ (DO_DOWNLOAD /\ AllWritten /\ pc = "done") =>
          \A id \in SummaryIds : Attempts(id) = 1

\* C8: with the download stage enabled, a retrieval is attempted exactly once
\* for every identifier of the per-group table whether or not earlier ones
\* failed; no retrieval failure leaves the loop; every attempt comes after all
\* four files are written, and leaves the files as they are.
C8_Download ==
    /\ []C8_Attempts
    /\ [][dl_log' # dl_log => (AllWritten /\ files' = files)]_vars

\* the first retrieval failed and the second was still attempted
C8_Witness ==
    /\ pc = "done"
    /\ Len(dl_log) = 2
    /\ ~dl_log[1].ok
    /\ AllWritten

====
